---------------------------- MODULE Spec2Model ----------------------------
(***************************************************************************)
(* A model of image_server.py (class ImageServer).                         *)
(*                                                                         *)
(* Threads of control:                                                     *)
(*   - the pipeline ("main") thread, which calls start(), the image        *)
(*     setter (publish) and stop();                                        *)
(*   - the listener thread(s) created by _launch_flask, running run_http;  *)
(*   - request-handling threads, which run one route handler at a time     *)
(*     (image_jpg, the viewer pages of get_page, shutdown) or call the     *)
(*     image getter directly.                                              *)
(* The Flask listener, the WSGI environment and the image encoder are      *)
(* external: whether run() raises or returns, whether the environment      *)
(* offers 'werkzeug.server.shutdown', whether the encoder raises and       *)
(* whether the template can be read are choices of the environment.        *)
(***************************************************************************)
EXTENDS Naturals, Sequences, FiniteSets

\* ------------------------------------------------------------ bounds
\* Listener threads the model has room for (the setter creates one per launch).
MaxListeners == 2

\* ------------------------------------------------------------ values
\* Threads other than the pipeline's and the listeners': each runs one route
\* handler of an accepting listener, or one direct read of the image
\* property, at a time.
Handlers == {"t1"}

\* __current_image = None
NoFrame == [width |-> 0, height |-> 0, data |-> 0]

\* Frames the pipeline publishes (image.shape[:2] is (height, width)).
Frames == { [width |-> 100, height |-> 50, data |-> 1],
            [width |-> 64, height |-> 48, data |-> 2] }

\* The constructor's http_host, as http_host.split(":") sees it.
HostStrings == { <<"">>, <<"127.0.0.1", "9000">>, <<"localhost">> }

HTTP_PORT_DEFAULT == "8080"

\* The getter's "return []".
Empty == <<>>

\* utils.encode_image(frame)[1].tobytes(): an opaque, deterministic encoder.
Encode(f) == <<255, 216, f.width, f.height, f.data>>

NoResp == [tag |-> "none", bytes |-> Empty, text |-> ""]
BytesResp(b) == [tag |-> "bytes", bytes |-> b, text |-> ""]
TextResp(s) == [tag |-> "text", bytes |-> Empty, text |-> s]
ErrorResp == [tag |-> "error", bytes |-> Empty, text |-> "EncodeError"]

\* What Flask answers when a view raises or returns None: a 500.
ServerError(what) == [tag |-> "error", bytes |-> Empty, text |-> what]

\* The viewer page returned by get_page.
PageResp == [tag |-> "page", bytes |-> Empty, text |-> ""]

\* The tokens get_page substitutes that depend on the request or the frame.
NoPage == [delay |-> <<>>, width |-> 0, height |-> 0]

\* request.args.get("delay") is None; a delay string is its characters.
NoDelay == [given |-> FALSE, chars |-> <<>>]
Delay(s) == [given |-> TRUE, chars |-> s]

\* The delay of GET /image: absent, empty, or a string.
QueryDelays == { NoDelay, Delay(<<>>), Delay(<<"2", ".", "5">>),
                 Delay(<<"3">>), Delay(<<"a", "b", "c">>) }

\* The delay of GET /image/<string:delay>: a non-empty path segment.
PathDelays == { d \in QueryDelays : d.given /\ d.chars # <<>> }

\* The constructor's http_delay_secs, a decimal num / 10^scale.
HTTP_DELAY_SECS_DEFAULT == [num |-> 25, scale |-> 2]

NotReadyMsg == "Not ready to stop"
ShuttingDownMsg == "Shutting down..."

IdleHandler == [pc |-> "idle", kind |-> "none", poster |-> "none", srv |-> 0,
                live |-> FALSE, resp |-> NoResp, encoded |-> FALSE,
                base |-> NoFrame, cands |-> {}, repeat |-> FALSE,
                delay |-> NoDelay, page |-> NoPage, logged |-> FALSE,
                stale |-> FALSE]

VARIABLES
    http_host,       \* self.__http_host, split at ":"
    hook,            \* the WSGI environment offers 'werkzeug.server.shutdown'
    current_image,   \* self.__current_image
    lock,            \* holder of self.__current_image_lock, or "free"
    ready_to_stop,   \* self.__ready_to_stop
    flask_launched,  \* self.__flask_launched
    started,         \* self.started
    stopped,         \* self.stopped
    dims,            \* <<width, height>> captured by _launch_flask's closures
    mpc,             \* position of the pipeline thread
    marg,            \* the frame of the pipeline thread's publish call
    mret,            \* how the pipeline thread's last call ended
    published,       \* the frame of the last publish call that stored and returned
    listeners,       \* the threads created by _launch_flask, in order
    h,               \* the request-handling threads
    last_snapshot    \* what the getter last returned since the last store

vars == <<http_host, hook, current_image, lock, ready_to_stop, flask_launched,
          started, stopped, dims, mpc, marg, mret, published, listeners, h,
          last_snapshot>>

\* The instance's flags and frame, as the claims speak of them.
flags == <<started, flask_launched, ready_to_stop, stopped, current_image>>

\* ------------------------------------------------------------ __init__
\* vals = http_host.split(":"); host = vals[0]
Host == http_host[1]

\* port = vals[1] if len(vals) == 2 else HTTP_PORT_DEFAULT
Port == IF Len(http_host) = 2 THEN http_host[2] ELSE HTTP_PORT_DEFAULT

\* enabled: len(self.__http_host) > 0
enabled == http_host # <<"">>

Init ==
    /\ http_host \in HostStrings
    /\ hook \in BOOLEAN
    /\ current_image = NoFrame
    /\ lock = "free"
    /\ ready_to_stop = FALSE
    /\ flask_launched = FALSE
    /\ started = FALSE
    /\ stopped = FALSE
    /\ dims = <<0, 0>>
    /\ mpc = "idle"
    /\ marg = NoFrame
    /\ mret = "none"
    /\ published = NoFrame
    /\ listeners = <<>>
    /\ h = [t \in Handlers |-> IdleHandler]
    /\ last_snapshot = NoResp

\* Some listener is inside flask_server.run() and accepts connections.
Accepting(i) == i \in DOMAIN listeners /\ listeners[i].pc = "running"

\* ------------------------------------------------------------ start()
\* start() without its test of enabled.
StartProceeds_NoEnabledTest == ~flask_launched /\ ~started

\* The guards of start(): proceed only when not launched, enabled, not started.
StartProceeds == ~(flask_launched \/ ~enabled) /\ ~started

CallStart ==
    /\ mpc = "idle"
    /\ mpc' = "start"
    /\ UNCHANGED <<http_host, hook, current_image, lock, ready_to_stop,
                   flask_launched, started, stopped, dims, marg, mret,
                   published, listeners, h, last_snapshot>>

Start ==
    /\ mpc = "start"
    /\ IF StartProceeds
          THEN started' = TRUE /\ mret' = "start_ok"
          ELSE started' = started /\ mret' = "start_noop"
    /\ mpc' = "ret"
    /\ UNCHANGED <<http_host, hook, current_image, lock, ready_to_stop,
                   flask_launched, stopped, dims, marg, published, listeners, h,
                   last_snapshot>>

\* The call returns to the pipeline.
Return ==
    /\ mpc = "ret"
    /\ mpc' = "idle"
    /\ mret' = "none"
    /\ marg' = NoFrame
    /\ published' = IF mret = "pub_stored" THEN marg ELSE published
    /\ UNCHANGED <<http_host, hook, current_image, lock, ready_to_stop,
                   flask_launched, started, stopped, dims, listeners, h,
                   last_snapshot>>

\* ------------------------------------------------------------ image setter
\* The setter without its test of started.
PublishProceeds_NoStartedTest == enabled

\* The setter's guards: "if not self.enabled: return", "if not self.started: return".
PublishProceeds == enabled /\ started

\* The setter launching on every call.
NeedsLaunch_Always == TRUE

\* The setter launching again once the server has stopped.
NeedsLaunch_OrStopped == ~flask_launched \/ stopped

\* "if not self.__flask_launched:"
NeedsLaunch == ~flask_launched

CallPublish(f) ==
    /\ mpc = "idle"
    /\ mpc' = "publish"
    /\ marg' = f
    /\ UNCHANGED <<http_host, hook, current_image, lock, ready_to_stop,
                   flask_launched, started, stopped, dims, mret, published,
                   listeners, h, last_snapshot>>

PublishCheck ==
    /\ mpc = "publish"
    /\ IF ~PublishProceeds
          THEN /\ mpc' = "ret"
               /\ mret' = "pub_noop"
          ELSE /\ mpc' = IF NeedsLaunch THEN "pub_spawn" ELSE "pub_lock"
               /\ mret' = mret
    /\ UNCHANGED <<http_host, hook, current_image, lock, ready_to_stop,
                   flask_launched, started, stopped, dims, marg, published,
                   listeners, h, last_snapshot>>

\* _launch_flask: the closures capture width and height; Thread(...).start()
PublishSpawn ==
    /\ mpc = "pub_spawn"
    /\ Len(listeners) < MaxListeners
    /\ dims' = <<marg.width, marg.height>>
    /\ listeners' = Append(listeners,
            [pc |-> "test", why |-> "spawn", failStopped |-> FALSE,
             sig |-> FALSE, host |-> Host, port |-> Port, addr |-> <<>>,
             first |-> published = NoFrame])
    /\ mpc' = "pub_flag"
    /\ UNCHANGED <<http_host, hook, current_image, lock, ready_to_stop,
                   flask_launched, started, stopped, marg, mret, published, h,
                   last_snapshot>>

\* _launch_flask: self.__flask_launched = True
PublishFlag ==
    /\ mpc = "pub_flag"
    /\ flask_launched' = TRUE
    /\ mpc' = "pub_lock"
    /\ UNCHANGED <<http_host, hook, current_image, lock, ready_to_stop,
                   started, stopped, dims, marg, mret, published, listeners, h,
                   last_snapshot>>

\* "with self.__current_image_lock:" of the setter
PublishLock ==
    /\ mpc = "pub_lock"
    /\ lock = "free"
    /\ lock' = "main"
    /\ mpc' = "pub_store"
    /\ UNCHANGED <<http_host, hook, current_image, ready_to_stop,
                   flask_launched, started, stopped, dims, marg, mret,
                   published, listeners, h, last_snapshot>>

\* A getter call is in progress: between its call and its return value.
InSnapshot(t) == h[t].pc \in {"snap_lock", "snap_read"}

\* The setter storing the frame only inside its "if not launched" block:
\* later frames are dropped.
PublishStore_FirstOnly ==
    /\ mpc = "pub_store"
    /\ current_image' = IF current_image = NoFrame THEN marg ELSE current_image
    /\ lock' = "free"
    /\ mpc' = "ret"
    /\ mret' = "pub_stored"
    /\ h' = [t \in Handlers |->
                IF InSnapshot(t) /\ current_image = NoFrame
                   THEN [h[t] EXCEPT !.cands = @ \cup {marg}]
                   ELSE h[t]]
    /\ last_snapshot' = NoResp
    /\ UNCHANGED <<http_host, hook, ready_to_stop, flask_launched, started,
                   stopped, dims, marg, published, listeners>>

\* "self.__current_image = image", then the lock is released and the setter returns.
\* Each getter call in progress notes the frame stored while it runs (cands).
PublishStore ==
    /\ mpc = "pub_store"
    /\ current_image' = marg
    /\ lock' = "free"
    /\ mpc' = "ret"
    /\ mret' = "pub_stored"
    /\ h' = [t \in Handlers |->
                IF InSnapshot(t)
                   THEN [h[t] EXCEPT !.cands = @ \cup {marg}]
                   ELSE h[t]]
    /\ last_snapshot' = NoResp
    /\ UNCHANGED <<http_host, hook, ready_to_stop, flask_launched, started,
                   stopped, dims, marg, published, listeners>>

\* ------------------------------------------------------------ image getter
\* "if self.__current_image is None: return []", else the encoder's bytes.
SnapshotOf(img) ==
    IF img = NoFrame THEN BytesResp(Empty) ELSE BytesResp(Encode(img))

\* The getter without its None test.
CallsEncoder_Always(img) == TRUE

\* The getter calls utils.encode_image only past the None test.
CallsEncoder(img) == img # NoFrame

\* A call of the image getter: by the image_jpg route of a listener that is
\* accepting ("jpg"), or directly on the object ("direct").
BeginSnapshot(t, k) ==
    /\ h[t].pc = "idle"
    /\ k \in {"jpg", "direct"}
    /\ \/ /\ k = "direct"
          /\ h' = [h EXCEPT ![t] = [IdleHandler EXCEPT
                      !.pc = "snap_lock", !.kind = k, !.poster = "ext",
                      !.base = published,
                            !.cands = {current_image}]]
       \/ /\ k = "jpg"
          /\ \E i \in DOMAIN listeners :
                /\ Accepting(i)
                /\ h' = [h EXCEPT ![t] = [IdleHandler EXCEPT
                            !.pc = "snap_lock", !.kind = k, !.poster = "ext",
                            !.srv = i, !.live = TRUE,
                            !.base = published,
                            !.cands = {current_image}]]
    /\ UNCHANGED <<http_host, hook, current_image, lock, ready_to_stop,
                   flask_launched, started, stopped, dims, mpc, marg, mret,
                   published, listeners, last_snapshot>>

\* "with self.__current_image_lock:" of the getter
SnapLock(t) ==
    /\ h[t].pc = "snap_lock"
    /\ lock = "free"
    /\ lock' = t
    /\ h' = [h EXCEPT ![t].pc = "snap_read"]
    /\ UNCHANGED <<http_host, hook, current_image, ready_to_stop,
                   flask_launched, started, stopped, dims, mpc, marg, mret,
                   published, listeners, last_snapshot>>

\* What a getter call leaves as the latest result: its bytes, if it returned any.
Latest(r) == IF r.tag = "bytes" THEN r ELSE last_snapshot

\* A getter that hands the frame out once: it clears the stored frame.
SnapRead_Consuming(t) ==
    /\ h[t].pc = "snap_read"
    /\ lock = t
    /\ lock' = "free"
    /\ current_image' = NoFrame
    /\ \E encoderRaises \in BOOLEAN :
          /\ h' = [h EXCEPT ![t] = [@ EXCEPT
                  !.pc = "done",
                  !.encoded = CallsEncoder(current_image),
                  !.repeat = last_snapshot # NoResp,
                  !.resp = IF CallsEncoder(current_image) /\ encoderRaises
                              THEN ErrorResp
                              ELSE SnapshotOf(current_image)]]
          /\ last_snapshot' = Latest(h'[t].resp)
    /\ UNCHANGED <<http_host, hook, ready_to_stop,
                   flask_launched, started, stopped, dims, mpc, marg, mret,
                   published, listeners>>

\* A getter with acquire() and release() around its body and no try/finally:
\* the encoder's exception leaves the lock held.
SnapRead_LeakOnRaise(t) ==
    /\ h[t].pc = "snap_read"
    /\ lock = t
    /\ \E encoderRaises \in BOOLEAN :
          /\ h' = [h EXCEPT ![t] = [@ EXCEPT
                  !.pc = "done",
                  !.encoded = CallsEncoder(current_image),
                  !.repeat = last_snapshot # NoResp,
                  !.resp = IF CallsEncoder(current_image) /\ encoderRaises
                              THEN ErrorResp
                              ELSE SnapshotOf(current_image)]]
          /\ lock' = IF h'[t].resp = ErrorResp THEN lock ELSE "free"
          /\ last_snapshot' = Latest(h'[t].resp)
    /\ UNCHANGED <<http_host, hook, current_image, ready_to_stop,
                   flask_launched, started, stopped, dims, mpc, marg, mret,
                   published, listeners>>

\* The body of the getter under the lock; leaving the with block (by return
\* or by the encoder's exception) releases the lock.
SnapRead(t) ==
    /\ h[t].pc = "snap_read"
    /\ lock = t
    /\ lock' = "free"
    /\ \E encoderRaises \in BOOLEAN :
          /\ h' = [h EXCEPT ![t] = [@ EXCEPT
                  !.pc = "done",
                  !.encoded = CallsEncoder(current_image),
                  !.repeat = last_snapshot # NoResp,
                  !.resp = IF CallsEncoder(current_image) /\ encoderRaises
                              THEN ErrorResp
                              ELSE SnapshotOf(current_image)]]
          /\ last_snapshot' = Latest(h'[t].resp)
    /\ UNCHANGED <<http_host, hook, current_image, ready_to_stop,
                   flask_launched, started, stopped, dims, mpc, marg, mret,
                   published, listeners>>

\* The handler thread is done with its request (the response of a POST made
\* by stop() is taken by StopWait instead).
HandlerReturn(t) ==
    /\ h[t].pc = "done"
    /\ h[t].poster # "stop"
    /\ h' = [h EXCEPT ![t] = IdleHandler]
    /\ UNCHANGED <<http_host, hook, current_image, lock, ready_to_stop,
                   flask_launched, started, stopped, dims, mpc, marg, mret,
                   published, listeners, last_snapshot>>

\* ------------------------------------------------------------ get_page
DigitChars == <<"0", "1", "2", "3", "4", "5", "6", "7", "8", "9">>

IsDigit(c) == \E n \in 1..10 : DigitChars[n] = c

DigitValue(c) == (CHOOSE n \in 1..10 : DigitChars[n] = c) - 1

RECURSIVE DigitsValue(_)
DigitsValue(s) ==
    IF s = <<>> THEN 0
    ELSE 10 * DigitsValue(SubSeq(s, 1, Len(s) - 1)) + DigitValue(s[Len(s)])

RECURSIVE Pow10(_)
Pow10(k) == IF k = 0 THEN 1 ELSE 10 * Pow10(k - 1)

\* A decimal without trailing zeros in its fraction.
RECURSIVE Norm(_)
Norm(v) ==
    IF v.scale > 0 /\ v.num % 10 = 0
       THEN Norm([num |-> v.num \div 10, scale |-> v.scale - 1])
       ELSE v

\* float(s) accepts s: digits with at most one point (the signs, exponents,
\* blanks, "inf" and "nan" that float() also accepts are in no request here).
IsFloat(s) ==
    /\ \A i \in 1..Len(s) : IsDigit(s[i]) \/ s[i] = "."
    /\ Cardinality({i \in 1..Len(s) : s[i] = "."}) <= 1
    /\ \E i \in 1..Len(s) : IsDigit(s[i])

\* float(s), for a string float() accepts.
Float(s) ==
    LET points == {i \in 1..Len(s) : s[i] = "."}
        scale  == IF points = {} THEN 0 ELSE Len(s) - (CHOOSE i \in points : TRUE)
    IN  Norm([num |-> DigitsValue(SelectSeq(s, IsDigit)), scale |-> scale])

RECURSIVE NatStr(_)
NatStr(n) ==
    IF n < 10 THEN <<DigitChars[n + 1]>>
    ELSE NatStr(n \div 10) \o <<DigitChars[(n % 10) + 1]>>

\* n as k digits, zeros in front.
RECURSIVE Padded(_, _)
Padded(n, k) ==
    IF k = 0 THEN <<>>
    ELSE Padded(n \div 10, k - 1) \o <<DigitChars[(n % 10) + 1]>>

\* str(x) of a float: "3.0", "2.5", "0.25".
Str(v) ==
    IF v.scale = 0
       THEN NatStr(v.num) \o <<".", "0">>
       ELSE NatStr(v.num \div Pow10(v.scale)) \o <<".">>
               \o Padded(v.num % Pow10(v.scale), v.scale)

\* "if delay": neither None nor the empty string.
Truthy(d) == d.given /\ d.chars # <<>>

\* delay_secs = float(delay) if delay else self.__http_delay_secs
DelaySecs(d) == IF Truthy(d) THEN Float(d.chars) ELSE HTTP_DELAY_SECS_DEFAULT

\* get_page reading the dimensions off the frame stored at the request.
PageDims_Current == <<current_image.width, current_image.height>>

\* The width and height of _launch_flask's call, held by get_page's closure.
PageDims == dims

\* GET /image ("option", delay from the query) or GET /image/<delay> ("path").
BeginPage(t, k, d) ==
    /\ h[t].pc = "idle"
    /\ \/ k = "option" /\ d \in QueryDelays
       \/ k = "path" /\ d \in PathDelays
    /\ \E i \in DOMAIN listeners :
          /\ Accepting(i)
          /\ h' = [h EXCEPT ![t] = [IdleHandler EXCEPT
                      !.pc = "page", !.kind = k, !.poster = "ext",
                      !.srv = i, !.live = TRUE, !.delay = d]]
    /\ UNCHANGED <<http_host, hook, current_image, lock, ready_to_stop,
                   flask_launched, started, stopped, dims, mpc, marg, mret,
                   published, listeners, last_snapshot>>

\* get_page: float(delay) is outside the try block, so its ValueError leaves
\* the view; inside it the template is read (which may fail: logged, then
\* time.sleep(1)) and its tokens are replaced.
GetPage(t) ==
    /\ h[t].pc = "page"
    /\ IF Truthy(h[t].delay) /\ ~IsFloat(h[t].delay.chars)
          THEN h' = [h EXCEPT ![t] = [@ EXCEPT
                       !.pc = "done", !.resp = ServerError("ValueError")]]
          ELSE \E templateFails \in BOOLEAN :
                  h' = [h EXCEPT ![t] =
                          IF templateFails
                             THEN [@ EXCEPT !.pc = "page_sleep",
                                            !.logged = TRUE]
                             ELSE [@ EXCEPT
                                     !.pc = "done",
                                     !.resp = PageResp,
                                     !.page = [delay |-> Str(DelaySecs(h[t].delay)),
                                               width |-> PageDims[1],
                                               height |-> PageDims[2]]]]
    /\ UNCHANGED <<http_host, hook, current_image, lock, ready_to_stop,
                   flask_launched, started, stopped, dims, mpc, marg, mret,
                   published, listeners, last_snapshot>>

\* get_page letting the template's exception pass, served by a listener that
\* lets a view's exception pass: run() raises.
PageSleepDone_Propagates(t) ==
    /\ h[t].pc = "page_sleep"
    /\ h' = [h EXCEPT ![t] = [@ EXCEPT !.pc = "done",
                                       !.resp = ServerError("TemplateError")]]
    /\ listeners' = IF h[t].live
                       THEN [listeners EXCEPT ![h[t].srv].pc = "backoff",
                                              ![h[t].srv].why = "fail"]
                       ELSE listeners
    /\ UNCHANGED <<http_host, hook, current_image, lock, ready_to_stop,
                   flask_launched, started, stopped, dims, mpc, marg, mret,
                   published, last_snapshot>>

\* The sleep of the except block ends and get_page returns None: Flask
\* answers the request with a 500.
PageSleepDone(t) ==
    /\ h[t].pc = "page_sleep"
    /\ h' = [h EXCEPT ![t] = [@ EXCEPT !.pc = "done",
                                       !.resp = ServerError("NoResponse")]]
    /\ UNCHANGED <<http_host, hook, current_image, lock, ready_to_stop,
                   flask_launched, started, stopped, dims, mpc, marg, mret,
                   published, listeners, last_snapshot>>

\* ------------------------------------------------------------ POST /__shutdown__
\* shutdown() without its test of the armed flag.
ShutdownArmed_Always == TRUE

\* "if not self.__ready_to_stop: return 'Not ready to stop'"
ShutdownArmed == ready_to_stop

\* request.environ.get('werkzeug.server.shutdown') is not None
HookPresent == hook

ShutdownRequest(i, who) ==
    [IdleHandler EXCEPT !.pc = "sd_check", !.kind = "shutdown",
                        !.poster = who, !.srv = i, !.live = TRUE]

\* A POST to /__shutdown__ by anyone but stop().
BeginShutdownExt(t) ==
    /\ h[t].pc = "idle"
    /\ \E i \in DOMAIN listeners :
          /\ Accepting(i)
          /\ h' = [h EXCEPT ![t] = ShutdownRequest(i, "ext")]
    /\ UNCHANGED <<http_host, hook, current_image, lock, ready_to_stop,
                   flask_launched, started, stopped, dims, mpc, marg, mret,
                   published, listeners, last_snapshot>>

\* shutdown(): the armed test and the lookup of the shutdown hook
ShutdownCheck(t) ==
    /\ h[t].pc = "sd_check"
    /\ h' = [h EXCEPT ![t] =
                IF ~ShutdownArmed
                   THEN [@ EXCEPT !.pc = "done", !.resp = TextResp(NotReadyMsg)]
                   ELSE IF ~HookPresent
                           THEN [@ EXCEPT !.pc = "done",
                                          !.resp = TextResp(ShuttingDownMsg)]
                           ELSE [@ EXCEPT !.pc = "sd_set"]]
    /\ UNCHANGED <<http_host, hook, current_image, lock, ready_to_stop,
                   flask_launched, started, stopped, dims, mpc, marg, mret,
                   published, listeners, last_snapshot>>

\* shutdown(): self.stopped = True
ShutdownSet(t) ==
    /\ h[t].pc = "sd_set"
    /\ stopped' = TRUE
    /\ h' = [h EXCEPT ![t].pc = "sd_hook"]
    /\ UNCHANGED <<http_host, hook, current_image, lock, ready_to_stop,
                   flask_launched, started, dims, mpc, marg, mret, published,
                   listeners, last_snapshot>>

\* shutdown(): shutdown_func(), then return "Shutting down...".  The hook
\* signals the server object that accepted the request; a listener that has
\* left run() since then has dropped that object.
ShutdownHook(t) ==
    /\ h[t].pc = "sd_hook"
    /\ listeners' = IF h[t].live
                       THEN [listeners EXCEPT ![h[t].srv].sig = TRUE]
                       ELSE listeners
    /\ h' = [h EXCEPT ![t] = [@ EXCEPT !.pc = "done",
                                       !.resp = TextResp(ShuttingDownMsg)]]
    /\ UNCHANGED <<http_host, hook, current_image, lock, ready_to_stop,
                   flask_launched, started, stopped, dims, mpc, marg, mret,
                   published, last_snapshot>>

\* ------------------------------------------------------------ stop()
\* The shutdown requests still being handled when stop() is called.
Outdated ==
    [t \in Handlers |->
        IF h[t].pc \in {"sd_check", "sd_set", "sd_hook"}
           THEN [h[t] EXCEPT !.stale = TRUE] ELSE h[t]]

\* stop() is called; a call made while no listener accepts connections
\* leaves its mark on the shutdown requests that are older than it.
CallStop ==
    /\ mpc = "idle"
    /\ mpc' = "stop"
    /\ h' = IF \E i \in DOMAIN listeners : Accepting(i) THEN h ELSE Outdated
    /\ UNCHANGED <<http_host, hook, current_image, lock, ready_to_stop,
                   flask_launched, started, stopped, dims, marg, mret,
                   published, listeners, last_snapshot>>

\* stop() setting stopped itself instead of leaving it to the handler.
StopArm_Stops ==
    /\ mpc = "stop"
    /\ ready_to_stop' = TRUE
    /\ stopped' = TRUE
    /\ mpc' = "stop_post"
    /\ UNCHANGED <<http_host, hook, current_image, lock, flask_launched,
                   started, dims, marg, mret, published, listeners, h,
                   last_snapshot>>

\* self.__ready_to_stop = True
StopArm ==
    /\ mpc = "stop"
    /\ ready_to_stop' = TRUE
    /\ mpc' = "stop_post"
    /\ UNCHANGED <<http_host, hook, current_image, lock, flask_launched,
                   started, stopped, dims, marg, mret, published, listeners, h,
                   last_snapshot>>

\* requests.post(url + "/__shutdown__"): a listener that is accepting takes
\* the request; with none accepting the connection fails and post() raises.
StopPost ==
    /\ mpc = "stop_post"
    /\ IF \E i \in DOMAIN listeners : Accepting(i)
          THEN /\ \E i \in DOMAIN listeners, t \in Handlers :
                     /\ Accepting(i)
                     /\ h[t].pc = "idle"
                     /\ h' = [h EXCEPT ![t] = ShutdownRequest(i, "stop")]
               /\ mpc' = "stop_wait"
               /\ mret' = mret
          ELSE /\ h' = h
               /\ mpc' = "ret"
               /\ mret' = "stop_connerr"
    /\ UNCHANGED <<http_host, hook, current_image, lock, ready_to_stop,
                   flask_launched, started, stopped, dims, marg, published,
                   listeners, last_snapshot>>

\* requests.post returns with the handler's response; stop() returns.
StopWait ==
    /\ mpc = "stop_wait"
    /\ \E t \in Handlers :
          /\ h[t].pc = "done"
          /\ h[t].poster = "stop"
          /\ mret' = IF h[t].resp.text = ShuttingDownMsg
                        THEN "stop_confirmed" ELSE "stop_notready"
          /\ h' = [h EXCEPT ![t] = IdleHandler]
    /\ mpc' = "ret"
    /\ UNCHANGED <<http_host, hook, current_image, lock, ready_to_stop,
                   flask_launched, started, stopped, dims, marg, published,
                   listeners, last_snapshot>>

\* ------------------------------------------------------------ run_http
\* run_http looping for ever ("while True:").
LoopContinues_Always == TRUE

\* run_http testing the armed flag instead of stopped.
LoopContinues_Armed == ~ready_to_stop

\* "while not self.stopped:"
LoopContinues == ~stopped

\* How run() returned without raising.
CleanWhy == {"shutdown", "early"}

\* Requests taken by listener i lose their server object when i leaves run().
Orphaned(i) ==
    [t \in Handlers |->
        IF h[t].srv = i THEN [h[t] EXCEPT !.live = FALSE] ELSE h[t]]

\* The while test: flask_server.run(host=host, port=port), or leave the loop.
LoopTest(i) ==
    /\ i \in DOMAIN listeners
    /\ listeners[i].pc = "test"
    /\ listeners' = [listeners EXCEPT ![i] =
            IF LoopContinues
               THEN [@ EXCEPT !.pc = "running", !.sig = FALSE,
                              !.failStopped = FALSE,
                              !.addr = <<listeners[i].host,
                                          listeners[i].port>>]
               ELSE [@ EXCEPT !.pc = "exited"]]
    /\ UNCHANGED <<http_host, hook, current_image, lock, ready_to_stop,
                   flask_launched, started, stopped, dims, mpc, marg, mret,
                   published, h, last_snapshot>>

\* run() raises: "except BaseException", logged, then time.sleep(1).
RunRaises(i) ==
    /\ Accepting(i)
    /\ listeners' = [listeners EXCEPT ![i] =
            [@ EXCEPT !.pc = "backoff", !.why = "fail",
                      !.failStopped = stopped, !.sig = FALSE]]
    /\ h' = Orphaned(i)
    /\ UNCHANGED <<http_host, hook, current_image, lock, ready_to_stop,
                   flask_launched, started, stopped, dims, mpc, marg, mret,
                   published, last_snapshot>>

\* The sleep ends; "finally" logs; back to the while test.
BackoffDone(i) ==
    /\ i \in DOMAIN listeners
    /\ listeners[i].pc = "backoff"
    /\ listeners' = [listeners EXCEPT ![i].pc = "test"]
    /\ UNCHANGED <<http_host, hook, current_image, lock, ready_to_stop,
                   flask_launched, started, stopped, dims, mpc, marg, mret,
                   published, h, last_snapshot>>

CleanReturn(i, how) ==
    /\ listeners' = [listeners EXCEPT ![i] =
            [@ EXCEPT !.pc = "test", !.why = how, !.failStopped = FALSE,
                      !.sig = FALSE]]
    /\ h' = Orphaned(i)
    /\ UNCHANGED <<http_host, hook, current_image, lock, ready_to_stop,
                   flask_launched, started, stopped, dims, mpc, marg, mret,
                   published, last_snapshot>>

\* run() returns because the shutdown hook was called; "finally" logs.
RunReturnsShutdown(i) ==
    /\ Accepting(i)
    /\ listeners[i].sig
    /\ CleanReturn(i, "shutdown")

\* run() returns without the hook having been called (Flask's run() returns
\* at once when started under its own command line runner); "finally" logs.
RunReturnsEarly(i) ==
    /\ Accepting(i)
    /\ ~listeners[i].sig
    /\ CleanReturn(i, "early")

\* ------------------------------------------------------------ specification
MainStep ==
    \/ Start
    \/ Return
    \/ PublishCheck
    \/ PublishSpawn
    \/ PublishFlag
    \/ PublishLock
    \/ PublishStore
    \/ StopArm
    \/ StopPost
    \/ StopWait

MainCall ==
    \/ CallStart
    \/ \E f \in Frames : CallPublish(f)
    \/ CallStop

HandlerStep(t) ==
    \/ SnapLock(t)
    \/ SnapRead(t)
    \/ ShutdownCheck(t)
    \/ ShutdownSet(t)
    \/ ShutdownHook(t)
    \/ GetPage(t)
    \/ PageSleepDone(t)
    \/ HandlerReturn(t)

Request(t) ==
    \/ \E k \in {"jpg", "direct"} : BeginSnapshot(t, k)
    \/ \E k \in {"option", "path"}, d \in QueryDelays : BeginPage(t, k, d)
    \/ BeginShutdownExt(t)

ListenerStep(i) ==
    \/ LoopTest(i)
    \/ BackoffDone(i)
    \/ RunReturnsShutdown(i)

ListenerFault(i) ==
    \/ RunRaises(i)
    \/ RunReturnsEarly(i)

Next ==
    \/ MainCall
    \/ MainStep
    \/ \E t \in Handlers : Request(t)
    \/ \E t \in Handlers : HandlerStep(t)
    \/ \E i \in 1..MaxListeners : ListenerStep(i)
    \/ \E i \in 1..MaxListeners : ListenerFault(i)

Spec == Init /\ [][Next]_vars

\* Every thread that can take a step of the program's own code eventually
\* takes it; calls, requests and faults are up to the environment.  The
\* pipeline's fairness is strong: an accepting listener takes the POST of
\* stop() however busy the handler threads of the model are with other requests.
FairSpec ==
    /\ Spec
    /\ SF_vars(MainStep)
    /\ \A t \in Handlers : WF_vars(HandlerStep(t))
    /\ \A i \in 1..MaxListeners : WF_vars(ListenerStep(i))

\* ------------------------------------------------------------ claims
IsSnapshot(t) == h[t].kind \in {"jpg", "direct"}

\* A getter call of t has returned bytes.
Returned(t) == h[t].pc = "done" /\ IsSnapshot(t) /\ h[t].resp.tag = "bytes"

\* What the getter owes for a stored value c: nothing for no frame, else encode(c).
Owed(c) == IF c = NoFrame THEN Empty ELSE Encode(c)

\* C1: when publish(F) returns, F is the stored frame; a snapshot called after
\* publish(F) returned, with no frame stored between that return and the
\* snapshot's read, returns exactly encode(F); a snapshot that overlaps stores
\* returns what is owed for the value stored when it was called or for one of
\* the frames stored while it ran (empty for "no frame yet"), nothing else.
C1_SnapshotIsPublishedFrame ==
    /\ (mpc = "ret" /\ mret = "pub_stored") => current_image = marg
    /\ \A t \in Handlers :
          Returned(t) =>
             /\ h[t].resp.bytes \in {Owed(c) : c \in h[t].cands}
             /\ (h[t].base # NoFrame /\ h[t].cands = {h[t].base})
                   => h[t].resp.bytes = Encode(h[t].base)

\* A snapshot called after a later publish (of a frame whose dimensions are
\* not those of the bootstrap) returned, with no store since, has returned
\* that frame's encoding.
C1_Witness ==
    \E t \in Handlers :
       /\ Returned(t)
       /\ h[t].base # NoFrame
       /\ h[t].cands = {h[t].base}
       /\ <<h[t].base.width, h[t].base.height>> # dims
       /\ h[t].resp.bytes = Encode(h[t].base)

\* C2: as long as no publish has stored a frame, a snapshot returns the empty
\* byte sequence and has not called the encoder.
C2_EmptyBeforeFirstStore ==
    \A t \in Handlers :
       (h[t].pc = "done" /\ IsSnapshot(t) /\ current_image = NoFrame)
          => (h[t].resp = BytesResp(Empty) /\ ~h[t].encoded)

\* A snapshot has returned while no frame is stored.
C2_Witness ==
    \E t \in Handlers :
       h[t].pc = "done" /\ IsSnapshot(t) /\ current_image = NoFrame

\* C3: a publish call on a server that is disabled or not started returns
\* without changing the stored frame, the flags, the listener threads or the
\* lock; so while the server is disabled or not started no frame is stored,
\* nothing is launched, no listener thread exists and every snapshot is empty.
C3_PublishNoOp ==
    /\ [](~(enabled /\ started) =>
            /\ current_image = NoFrame
            /\ ~flask_launched
            /\ listeners = <<>>
            /\ \A t \in Handlers :
                  (h[t].pc = "done" /\ IsSnapshot(t))
                     => h[t].resp = BytesResp(Empty))
    /\ [][(mpc = "publish" /\ mpc' # "publish" /\ ~(enabled /\ started))
             => /\ mpc' = "ret"
                /\ mret' = "pub_noop"
                /\ UNCHANGED <<flags, listeners, dims, lock, h>>]_vars

\* A publish call on an enabled server, made before start(), has returned,
\* and a snapshot has returned.
C3_Witness ==
    /\ mpc = "ret"
    /\ mret = "pub_noop"
    /\ enabled
    /\ \E t \in Handlers : h[t].pc = "done" /\ IsSnapshot(t)

\* C4: a start() call on a server that is already started, already launched
\* or disabled changes no flag, not the stored frame, and creates no thread.
C4_StartIdempotent ==
    [][(mpc = "start" /\ mpc' # "start"
          /\ (started \/ flask_launched \/ ~enabled))
          => UNCHANGED <<flags, listeners, dims, lock, h>>]_vars

\* A second start() has returned after the listener was launched.
C4_Witness ==
    /\ mpc = "ret"
    /\ mret = "start_noop"
    /\ started
    /\ flask_launched

\* C5: at most one listener thread is ever created; it is created by the
\* first publish call that gets past the guards (no publish had stored and
\* returned before), and once such a publish has returned, it exists.
C5_BootstrapOnce ==
    /\ Len(listeners) <= 1
    /\ \A i \in DOMAIN listeners : listeners[i].first
    /\ (published # NoFrame \/ mpc \in {"pub_flag", "pub_lock", "pub_store"})
          => Len(listeners) = 1

\* A later publish, of a frame of other dimensions, has returned after the
\* listener crashed and was restarted: still one listener thread.
C5_Witness ==
    /\ mpc = "ret"
    /\ mret = "pub_stored"
    /\ published # NoFrame
    /\ published # marg
    /\ Len(listeners) = 1
    /\ listeners[1].pc = "running"
    /\ listeners[1].why = "fail"

IsShutdown(t) == h[t].kind = "shutdown"

\* C6: while stop() has never been called, every POST to /__shutdown__ is
\* answered "Not ready to stop", none sets stopped or calls the shutdown
\* hook; stopped implies that stop() was called.
C6_ShutdownNeedsArming ==
    /\ stopped => ready_to_stop
    /\ ~ready_to_stop =>
          /\ \A t \in Handlers :
                IsShutdown(t) =>
                   \/ h[t].pc = "sd_check"
                   \/ h[t].pc = "done" /\ h[t].resp = TextResp(NotReadyMsg)
          /\ \A i \in DOMAIN listeners : ~listeners[i].sig

\* A POST to /__shutdown__ was answered while stop() had not been called.
C6_Witness ==
    /\ ~ready_to_stop
    /\ \E t \in Handlers : IsShutdown(t) /\ h[t].pc = "done"

\* C7: every POST to /__shutdown__ answered "Shutting down..." has set
\* stopped: the confirmation is never returned while stopped is false.
C7_ConfirmationMeansStopped ==
    \A t \in Handlers :
       (IsShutdown(t) /\ h[t].pc = "done" /\ h[t].resp = TextResp(ShuttingDownMsg))
          => stopped

\* The listener has left run() other than through the shutdown hook.
Faulted == \E i \in DOMAIN listeners : listeners[i].why \in {"fail", "early"}

\* C8: once stop() is called while the listener is running (and has never
\* left run()), then, unless run() fails or returns on its own, stopped
\* becomes true and the listener thread leaves its serve loop for good.
C8_StopSettles ==
    (mpc = "stop" /\ ~Faulted /\ \E i \in DOMAIN listeners : Accepting(i))
       ~> \/ Faulted
          \/ stopped /\ \A i \in DOMAIN listeners : listeners[i].pc = "exited"

\* The same with the shutdown hook on offer.
StopSettlesWithHook ==
    (hook /\ mpc = "stop" /\ ~Faulted /\ \E i \in DOMAIN listeners : Accepting(i))
       ~> \/ Faulted
          \/ stopped /\ \A i \in DOMAIN listeners : listeners[i].pc = "exited"

\* C9 as stated: after a failure of run() that happened while stopped was
\* false, the loop's next move after the backoff is to run the listener again.
C9_RestartAfterEveryFailure ==
    [][\A i \in DOMAIN listeners :
          (/\ listeners[i].pc = "test"
           /\ listeners[i].why = "fail"
           /\ ~listeners[i].failStopped
           /\ listeners'[i].pc # "test")
             => listeners'[i].pc = "running"]_vars

\* C9, amended: after a failure of run() the loop sleeps, then tests stopped:
\* if stopped is false at that test it runs the listener again on the
\* configured host and port, and it leaves the loop only if stopped is true
\* at that test; a loop that has been left was left with stopped true.
C9_RestartUnlessStopped ==
    /\ [](\A i \in DOMAIN listeners :
             /\ listeners[i].pc = "exited" => stopped
             /\ listeners[i].pc = "running" => listeners[i].addr = <<Host, Port>>)
    /\ [][\A i \in DOMAIN listeners :
             /\ (listeners[i].pc = "backoff" /\ listeners'[i].pc # "backoff")
                   => listeners'[i].pc = "test" /\ listeners'[i].why = "fail"
             /\ (/\ listeners[i].pc = "test"
                 /\ listeners[i].why = "fail"
                 /\ listeners'[i].pc # "test")
                   => IF stopped
                         THEN listeners'[i].pc = "exited"
                         ELSE /\ listeners'[i].pc = "running"
                              /\ listeners'[i].addr = <<Host, Port>>]_vars

\* The listener runs again, on the configured address, after a failure.
C9_Witness ==
    \E i \in DOMAIN listeners :
       /\ listeners[i].pc = "running"
       /\ listeners[i].why = "fail"
       /\ listeners[i].addr = <<Host, Port>>
       /\ ~stopped

\* C10 as stated: after a clean return of run() the loop's next move is to
\* leave the loop, whether or not stopped is true.
C10_CleanReturnExits ==
    [][\A i \in DOMAIN listeners :
          (/\ listeners[i].pc = "test"
           /\ listeners[i].why \in CleanWhy
           /\ listeners'[i].pc # "test")
             => listeners'[i].pc = "exited"]_vars

\* C10, amended: after a clean return of run() the loop leaves if stopped is
\* true, which it is whenever the return was caused by the shutdown hook;
\* if stopped is false the loop runs the listener again at once.
C10_CleanReturnExitsIfStopped ==
    /\ [](\A i \in DOMAIN listeners : listeners[i].sig => stopped)
    /\ [][\A i \in DOMAIN listeners :
             /\ (listeners[i].pc = "running" /\ listeners'[i].pc = "test")
                   => listeners'[i].why \in CleanWhy
             /\ (/\ listeners[i].pc = "test"
                 /\ listeners[i].why \in CleanWhy
                 /\ listeners'[i].pc # "test")
                   => IF stopped
                         THEN listeners'[i].pc = "exited"
                         ELSE listeners'[i].pc = "running"]_vars

\* The loop has been left after a clean return of run().
C10_Witness ==
    \E i \in DOMAIN listeners :
       listeners[i].pc = "exited" /\ listeners[i].why \in CleanWhy

\* A step of a getter call of t: its call, its taking the lock, its read
\* under the lock, its return.
GetterStep(t) ==
    /\ h'[t].pc # h[t].pc
    /\ IsSnapshot(t) \/ h'[t].kind \in {"jpg", "direct"}

\* C11: a getter call changes neither the stored frame nor any flag; a call
\* that returns bytes after an earlier call returned bytes, with no frame
\* stored between the two reads, returns the same bytes; and every call that
\* finds a frame stored calls the encoder, whatever was returned before.
C11_SnapshotRepeatable ==
    [][\A t \in Handlers :
          /\ GetterStep(t) => UNCHANGED <<flags, dims, listeners>>
          /\ (h[t].pc = "snap_read" /\ h'[t].pc = "done") =>
                /\ h'[t].encoded = (current_image # NoFrame)
                /\ (last_snapshot # NoResp /\ h'[t].resp.tag = "bytes")
                      => h'[t].resp = last_snapshot]_vars

\* A second getter call has returned a stored frame's bytes, the same as
\* the call before it, and has called the encoder to get them.
C11_Witness ==
    \E t \in Handlers :
       /\ Returned(t)
       /\ h[t].repeat
       /\ h[t].encoded
       /\ h[t].resp = last_snapshot
       /\ h[t].resp.bytes = Encode(current_image)

IsPage(t) == h[t].kind \in {"option", "path"}

\* A viewer request of t has been answered without a template failure.
PageAnswered(t) == IsPage(t) /\ h[t].pc = "done" /\ ~h[t].logged

\* The delay a viewer request is owed: its own if it is there and parses as a
\* number, the configured default in every other case.
OwedDelay(d) ==
    IF d.given /\ IsFloat(d.chars) THEN Float(d.chars)
    ELSE HTTP_DELAY_SECS_DEFAULT

\* C12: every viewer request (GET /image, GET /image/<delay>) whose template
\* renders is answered with the page, and the delay in the page is the
\* request's delay if that is present and parses as a number, the configured
\* default if it is absent, empty or does not parse; no delay gives an error.
C12_EffectiveDelay ==
    \A t \in Handlers :
       PageAnswered(t) =>
          /\ h[t].resp = PageResp
          /\ h[t].page.delay = Str(OwedDelay(h[t].delay))

\* The same for the requests whose delay is absent, empty or a number.
EffectiveDelayUnlessUnparsable ==
    \A t \in Handlers :
       (PageAnswered(t) /\ (Truthy(h[t].delay) => IsFloat(h[t].delay.chars))) =>
          /\ h[t].resp = PageResp
          /\ h[t].page.delay = Str(OwedDelay(h[t].delay))

\* GET /image/2.5 has been answered with the delay 2.5, which is not the default.
DelayOverrides ==
    \E t \in Handlers :
       /\ PageAnswered(t)
       /\ h[t].kind = "path"
       /\ h[t].delay = Delay(<<"2", ".", "5">>)
       /\ h[t].page.delay = <<"2", ".", "5">>
       /\ h[t].page.delay # Str(HTTP_DELAY_SECS_DEFAULT)

\* C13: the width and height in every viewer page are those captured at the
\* launch; they are captured once, by the publish call that creates the
\* first listener thread, from that call's frame, and never change after,
\* whatever is published later and however often the listener is restarted.
C13_DimsFixed ==
    /\ [](\A t \in Handlers :
             (IsPage(t) /\ h[t].resp = PageResp) =>
                /\ <<h[t].page.width, h[t].page.height>> = dims
                /\ dims # <<0, 0>>)
    /\ [][dims' # dims =>
             /\ dims = <<0, 0>>
             /\ listeners = <<>>
             /\ published = NoFrame
             /\ mpc = "pub_spawn"
             /\ dims' = <<marg.width, marg.height>>]_vars

\* A viewer page has been rendered by a restarted listener while the stored
\* frame has other dimensions than the frame of the launch.
C13_Witness ==
    \E t \in Handlers :
       /\ IsPage(t)
       /\ h[t].resp = PageResp
       /\ h[t].live
       /\ listeners[h[t].srv].why = "fail"
       /\ current_image # NoFrame
       /\ <<current_image.width, current_image.height>> # dims
       /\ <<h[t].page.width, h[t].page.height>> = dims

\* C14: a template failure in a viewer request is logged and answered with a
\* failure response by the handler; no step of the handler touches the
\* listener thread or any flag: run() does not raise because of it, nothing
\* is restarted, stopped stays as it is.
C14_TemplateFailureContained ==
    /\ [](\A t \in Handlers :
             /\ h[t].pc = "page_sleep" => h[t].logged
             /\ (IsPage(t) /\ h[t].pc = "done" /\ h[t].logged)
                   => h[t].resp.tag = "error")
    /\ [][\A t \in Handlers :
             (h[t].pc \in {"page", "page_sleep"} /\ h'[t].pc # h[t].pc)
                => UNCHANGED <<listeners, flags, dims, lock>>]_vars

\* A viewer request whose template failed has been answered with a failure
\* by a listener that has been running since the launch.
C14_Witness ==
    \E t \in Handlers :
       /\ IsPage(t)
       /\ h[t].pc = "done"
       /\ h[t].logged
       /\ h[t].resp.tag = "error"
       /\ h[t].live
       /\ listeners[h[t].srv].pc = "running"
       /\ listeners[h[t].srv].why = "spawn"
       /\ ~stopped

\* C15: the server is armed only once the listener has been launched:
\* ready_to_stop implies launched and started; a stop() call before start()
\* or before the first publish does not arm the server.
C15_ArmedOnlyWhenLaunched ==
    ready_to_stop => (flask_launched /\ started)

\* C16: stopped implies launched, in every state of every interleaving of
\* publish, stop, the listener thread and the request handlers.
C16_StoppedOnlyWhenLaunched ==
    stopped => flask_launched

\* What does hold: stopped implies that the listener thread has been created
\* (the launched flag is set right after) and that stop() has been called.
StoppedOnlyAfterSpawn ==
    stopped => (listeners # <<>> /\ ready_to_stop
                 /\ (flask_launched \/ mpc = "pub_flag"))

\* The POST of stop() is made while no listener accepts connections.
StopPostFails ==
    /\ mpc = "stop_post"
    /\ mpc' # "stop_post"
    /\ ~\E i \in DOMAIN listeners : Accepting(i)

\* The POST of stop() fails to connect: stop() ends with the connection
\* error, stopped is not changed, the server stays armed, no listener thread
\* is touched.
FailedStopChangesNothing ==
    StopPostFails =>
       /\ mpc' = "ret"
       /\ mret' = "stop_connerr"
       /\ ready_to_stop /\ ready_to_stop'
       /\ UNCHANGED <<flags, listeners, dims, lock>>

\* After its backoff (or any return of run()) the loop runs the listener
\* again if stopped is false at its test.
LoopRestartsWhileNotStopped ==
    \A i \in DOMAIN listeners :
       (listeners[i].pc = "test" /\ listeners'[i].pc # "test" /\ ~stopped)
          => listeners'[i].pc = "running"

\* C17 as stated: when stop() is called while the listener is not accepting,
\* its POST fails to connect and changes nothing, the server stays armed,
\* the loop restarts the listener, and stopped does not become true without
\* a further POST: no shutdown request older than the stop() call sets it.
C17_FailedStopNeverStops ==
    [][/\ FailedStopChangesNothing
       /\ LoopRestartsWhileNotStopped
       /\ \A t \in Handlers : (h[t].stale /\ ~stopped) => ~stopped']_vars

\* C17, amended: when the POST of stop() fails to connect, stop() changes
\* nothing but the armed flag, which stays true for good; the loop restarts
\* the listener whenever it finds stopped false; and stopped becomes true
\* only in the handler of a POST to /__shutdown__ (never in stop() itself):
\* of a later POST, or of one taken before the listener went down and still
\* being handled.
C17_FailedStopLeavesArmed ==
    [][/\ FailedStopChangesNothing
       /\ LoopRestartsWhileNotStopped
       /\ ready_to_stop => ready_to_stop'
       /\ stopped' # stopped =>
             \E t \in Handlers :
                /\ IsShutdown(t)
                /\ h[t].pc = "sd_set"
                /\ h'[t].pc = "sd_hook"
                /\ ready_to_stop]_vars

\* stop() has ended with the connection error after a crash of the
\* listener, and the loop has restarted the listener of the armed server.
C17_Witness ==
    /\ mpc = "ret"
    /\ mret = "stop_connerr"
    /\ ready_to_stop
    /\ ~stopped
    /\ \E i \in DOMAIN listeners :
          listeners[i].pc = "running" /\ listeners[i].why = "fail"

\* The serve loop of some listener thread has been left.
LoopExited == \E i \in DOMAIN listeners : listeners[i].pc = "exited"

\* C18: stopped, once true, stays true; a serve loop that has been left
\* stays left; and once it has been left no start(), publish or stop() call
\* creates a listener thread or resets the launched flag: a publish call
\* that passes the guards of a launched server goes straight to the store.
C18_StoppedAbsorbing ==
    /\ [](LoopExited => stopped)
    /\ [][/\ stopped => stopped'
          /\ \A i \in DOMAIN listeners :
                listeners[i].pc = "exited" => listeners'[i].pc = "exited"
          /\ LoopExited =>
                /\ Len(listeners') = Len(listeners)
                /\ flask_launched => flask_launched'
                /\ (mpc = "publish" /\ mpc' # "publish" /\ flask_launched)
                      => mpc' \in {"pub_lock", "ret"}]_vars

\* A publish call made after an earlier one has stored its frame and
\* returned, on a server whose serve loop has been left.
C18_Witness ==
    /\ mpc = "ret"
    /\ mret = "pub_stored"
    /\ published # NoFrame
    /\ current_image = marg
    /\ marg # published
    /\ stopped
    /\ flask_launched
    /\ Len(listeners) = 1
    /\ listeners[1].pc = "exited"

\* C19: whenever a listener can serve requests a frame is stored, and no
\* GET /image.jpg is answered with the empty snapshot, requests that arrive
\* during the first publish call included.
C19_NoEmptyJpg ==
    /\ \A i \in DOMAIN listeners : Accepting(i) => current_image # NoFrame
    /\ \A t \in Handlers :
          (h[t].kind = "jpg" /\ Returned(t)) => h[t].resp.bytes # Empty

\* What does hold: a GET /image.jpg that arrives after the first publish
\* call has returned is never answered with the empty snapshot.
NoEmptyJpgAfterFirstPublish ==
    \A t \in Handlers :
       (h[t].kind = "jpg" /\ Returned(t) /\ h[t].base # NoFrame)
          => h[t].resp.bytes # Empty

\* C20: the lock is held by the setter exactly while it stores and by a
\* getter call exactly while it reads, so by one of them at most and by
\* nobody when neither is in progress; a getter call whose encoder raises
\* frees the lock and leaves the stored frame as it was; whoever holds the
\* lock can take the step that releases it, whatever the other threads do,
\* so that no later call waits for a lock nobody will free.
C20_LockNeverLeaked ==
    /\ [](/\ lock \in {"free", "main"} \cup Handlers
          /\ lock = "main" <=> mpc = "pub_store"
          /\ \A t \in Handlers : lock = t <=> h[t].pc = "snap_read"
          /\ lock = "main" => ENABLED PublishStore
          /\ \A t \in Handlers : lock = t => ENABLED SnapRead(t))
    /\ [][\A t \in Handlers :
             (h[t].pc = "snap_read" /\ h'[t].pc = "done"
                /\ h'[t].resp = ErrorResp)
                => (lock' = "free" /\ current_image' = current_image)]_vars

\* A publish call holds the lock after a getter call whose encoder raised.
C20_Witness ==
    /\ lock = "main"
    /\ mpc = "pub_store"
    /\ \E t \in Handlers :
          /\ IsSnapshot(t)
          /\ h[t].pc = "done"
          /\ h[t].resp = ErrorResp

============================================================================
